---- MODULE Spec2Model ----
(***************************************************************************)
(* Model of the browsing-level bitflag utilities, the post edit store and  *)
(* its provider sync, and the PageModal stacking-context registration.     *)
(*                                                                         *)
(* Three specifications share the module:                                  *)
(*   Spec       the pure browsing-level functions, applied to inputs that  *)
(*              Init draws from bounded sets;                              *)
(*   StoreSpec  the zustand post edit store and PostEditProvider's sync;   *)
(*   ModalSpec  several PageModal instances registering in the shared      *)
(*              stackingContext list.                                      *)
(***************************************************************************)
EXTENDS Integers, Sequences, FiniteSets, TLC

VARIABLES
  \* browsing-level functions: the call made, its argument, its result
  op, arg, res, pc,
  \* post edit store (zustand state) and the provider's post prop
  post, images, isReordering, lastOp, lastCb,
  \* PageModal instances and the shared stores they read and write
  mpc, ref, opened, dialogCount, stackingContext

codecVars == <<op, arg, res, pc>>
storeVars == <<post, images, isReordering, lastOp, lastCb>>
modalVars == <<mpc, ref, opened, dialogCount, stackingContext>>
vars == <<op, arg, res, pc, post, images, isReordering, lastOp, lastCb,
          mpc, ref, opened, dialogCount, stackingContext>>

(***************************************************************************)
(* Bounds                                                                  *)
(***************************************************************************)
\* longest sequence of ranks handed to flagifyBrowsingLevel
MaxLevels == 6
\* masks range over 0 .. 2^MaskBits - 1 (bits beyond Blocked included)
MaskBits == 7
\* longest candidate list handed to browsingLevelOr
MaxCandidates == 4

(***************************************************************************)
(* Helpers                                                                 *)
(***************************************************************************)
Range(s) == { s[i] : i \in 1..Len(s) }

RECURSIVE Pow2(_)
Pow2(n) == IF n = 0 THEN 1 ELSE 2 * Pow2(n - 1)

SeqsUpTo(S, n) == UNION { [1..k -> S] : k \in 0..n }

\* JavaScript's & and | on non-negative integers
RECURSIVE BitAnd(_, _)
BitAnd(a, b) ==
  IF a = 0 \/ b = 0 THEN 0
  ELSE (a % 2) * (b % 2) + 2 * BitAnd(a \div 2, b \div 2)

RECURSIVE BitOr(_, _)
BitOr(a, b) ==
  IF a = 0 THEN b
  ELSE IF b = 0 THEN a
  ELSE (IF a % 2 = 1 \/ b % 2 = 1 THEN 1 ELSE 0) + 2 * BitOr(a \div 2, b \div 2)

(***************************************************************************)
(* NsfwLevel enum (~/server/common/enums): distinct powers of two, Blocked *)
(* a sentinel outside the combinable ranks.                                *)
(***************************************************************************)
PG == 1
PG13 == 2
R == 4
X == 8
XXX == 16
Blocked == 32

(***************************************************************************)
(* browsingLevel.constants.ts                                              *)
(***************************************************************************)
browsingLevels == <<PG, PG13, R, X, XXX>>

\* Flags.arrayToInstance: the bitwise OR of the flags, 0 for none
RECURSIVE Flags_arrayToInstance(_)
Flags_arrayToInstance(flags) ==
  IF flags = <<>> THEN 0
  ELSE BitOr(Flags_arrayToInstance(SubSeq(flags, 1, Len(flags) - 1)), flags[Len(flags)])

\* Flags.instanceToArray: every level of the fixed enumeration whose bit is
\* set, in enumeration order
Flags_instanceToArray(instance) ==
  SelectSeq(browsingLevels, LAMBDA l : BitAnd(instance, l) # 0)

Flags_intersects(instance, flag) == BitAnd(instance, flag) # 0

\* every bit that is set, lowest first, whatever level it stands for
RECURSIVE SetBits(_, _)
SetBits(instance, bit) ==
  IF instance = 0 THEN <<>>
  ELSE (IF instance % 2 = 1 THEN <<bit>> ELSE <<>>) \o SetBits(instance \div 2, 2 * bit)

parseBitwiseBrowsingLevel_AllBits(level) == SetBits(level, 1)

parseBitwiseBrowsingLevel(level) == Flags_instanceToArray(level)

RECURSIVE SumSeq(_)
SumSeq(s) == IF s = <<>> THEN 0 ELSE s[1] + SumSeq(Tail(s))

flagifyBrowsingLevel_Sum(levels) == SumSeq(levels)

flagifyBrowsingLevel(levels) == Flags_arrayToInstance(levels)

publicBrowsingLevelsArray == <<PG>>
publicBrowsingLevelsFlag == flagifyBrowsingLevel(publicBrowsingLevelsArray)

sfwBrowsingLevelsArray == <<PG, PG13>>
sfwBrowsingLevelsFlag == flagifyBrowsingLevel(sfwBrowsingLevelsArray)

nsfwBrowsingLevelsArray_NoXXX == <<R, X>>

nsfwBrowsingLevelsArray == <<R, X, XXX>>
nsfwBrowsingLevelsFlag == flagifyBrowsingLevel(nsfwBrowsingLevelsArray)

allBrowsingLevelsFlag == flagifyBrowsingLevel(browsingLevels)

getIsPublicBrowsingLevel_Some(level) ==
  LET levels == parseBitwiseBrowsingLevel(level)
  IN  \E i \in 1..Len(levels) : levels[i] \in Range(publicBrowsingLevelsArray)

getIsPublicBrowsingLevel(level) ==
  LET levels == parseBitwiseBrowsingLevel(level)
  IN  \A i \in 1..Len(levels) : levels[i] \in Range(publicBrowsingLevelsArray)

getIsSafeBrowsingLevel_NoZeroCheck(level) ==
  ~Flags_intersects(level, nsfwBrowsingLevelsFlag)

getIsSafeBrowsingLevel(level) ==
  level # 0 /\ ~Flags_intersects(level, nsfwBrowsingLevelsFlag)

\* (number | undefined): a candidate is undefined or carries a number
Undefined == [defined |-> FALSE, value |-> 0]
Num(n) == [defined |-> TRUE, value |-> n]
\* JavaScript's !!item
Truthy(item) == item.defined /\ item.value # 0

RECURSIVE FirstTruthy(_, _)
FirstTruthy(array, default) ==
  IF array = <<>> THEN default
  ELSE IF Truthy(array[1]) THEN array[1]
  ELSE FirstTruthy(Tail(array), default)

RECURSIVE FirstDefined(_, _)
FirstDefined(array, default) ==
  IF array = <<>> THEN default
  ELSE IF array[1].defined THEN array[1]
  ELSE FirstDefined(Tail(array), default)

browsingLevelOr_DefinedOnly(array) == FirstDefined(array, Num(publicBrowsingLevelsFlag))

browsingLevelOr(array) == FirstTruthy(array, Num(publicBrowsingLevelsFlag))

NsfwLevelDeprecated == {"None", "Soft", "Mature", "X", "Blocked"}

nsfwLevelMapDeprecated ==
  [ None    |-> PG,
    Soft    |-> PG13,
    Mature  |-> R,
    X       |-> flagifyBrowsingLevel(<<X, XXX>>),
    Blocked |-> Blocked ]

\* the table as a function on its keys
nsfwLevelReverseMapDeprecated ==
  (PG :> "None") @@ (PG13 :> "Soft") @@ (R :> "Mature") @@ (X :> "X")
    @@ (XXX :> "X") @@ (Blocked :> "Blocked")

\* a lookup that folds a combined mask onto its highest rank
getNsfwLeveLDeprecatedReverseMapping_Highest(level) ==
  LET bits == SetBits(level, 1)
  IN  IF bits # <<>> /\ bits[Len(bits)] \in DOMAIN nsfwLevelReverseMapDeprecated
        THEN nsfwLevelReverseMapDeprecated[bits[Len(bits)]]
        ELSE "None"

\* table[level] ?? None
getNsfwLeveLDeprecatedReverseMapping(level) ==
  IF level \in DOMAIN nsfwLevelReverseMapDeprecated
    THEN nsfwLevelReverseMapDeprecated[level]
    ELSE "None"

(***************************************************************************)
(* Spec: the browsing-level functions applied to bounded inputs.  Init     *)
(* draws a call and its argument; one action per function applies it.      *)
(***************************************************************************)
Ranks == Range(browsingLevels)
Masks == 0..(Pow2(MaskBits) - 1)
CandidateValues ==
  {Undefined} \cup { Num(n) : n \in {0, PG, R, nsfwBrowsingLevelsFlag, Blocked} }
GroupNames == {"Public", "SafeForWork", "NotSafeForWork", "All"}

GroupFlag(g) ==
  CASE g = "Public" -> publicBrowsingLevelsFlag
    [] g = "SafeForWork" -> sfwBrowsingLevelsFlag
    [] g = "NotSafeForWork" -> nsfwBrowsingLevelsFlag
    [] g = "All" -> allBrowsingLevelsFlag

Inputs(o) ==
  CASE o = "roundtrip" -> SeqsUpTo(Ranks, MaxLevels)
    [] o = "parse" -> Masks
    [] o = "isSafe" -> Masks
    [] o = "isPublic" -> Masks
    [] o = "or" -> SeqsUpTo(CandidateValues, MaxCandidates)
    [] o = "toLegacy" -> Masks
    [] o = "group" -> GroupNames

Ops == {"roundtrip", "parse", "isSafe", "isPublic", "or", "toLegacy", "group"}

StoreIdle ==
  /\ post = <<>> /\ images = <<>> /\ isReordering = FALSE
  /\ lastOp = [name |-> "none", id |-> 0] /\ lastCb = <<>>

ModalIdle ==
  /\ mpc = <<>> /\ ref = <<>> /\ opened = <<>>
  /\ dialogCount = 0 /\ stackingContext = <<>>

CodecIdle == op = "none" /\ arg = 0 /\ res = 0 /\ pc = "idle"

Init ==
  /\ \E o \in Ops : op = o /\ arg \in Inputs(o)
  /\ res = "none"
  /\ pc = "start"
  /\ StoreIdle
  /\ ModalIdle

Apply(o, result) ==
  /\ pc = "start"
  /\ op = o
  /\ res' = result
  /\ pc' = "done"
  /\ UNCHANGED <<op, arg>>
  /\ UNCHANGED storeVars
  /\ UNCHANGED modalVars

ApplyRoundTrip == Apply("roundtrip", parseBitwiseBrowsingLevel(flagifyBrowsingLevel(arg)))
ApplyParse == Apply("parse", parseBitwiseBrowsingLevel(arg))
ApplyIsSafe == Apply("isSafe", getIsSafeBrowsingLevel(arg))
ApplyIsPublic == Apply("isPublic", getIsPublicBrowsingLevel(arg))
ApplyBrowsingLevelOr == Apply("or", browsingLevelOr(arg))
ApplyToLegacy == Apply("toLegacy", getNsfwLeveLDeprecatedReverseMapping(arg))
ApplyGroup == Apply("group", flagifyBrowsingLevel(parseBitwiseBrowsingLevel(GroupFlag(arg))))

Next ==
  \/ ApplyRoundTrip
  \/ ApplyParse
  \/ ApplyIsSafe
  \/ ApplyIsPublic
  \/ ApplyBrowsingLevelOr
  \/ ApplyToLegacy
  \/ ApplyGroup

Spec == Init /\ [][Next]_vars

Done(o) == op = o /\ pc = "done"

\* C1: decode(encode(S)) is the distinct ranks of S, each once, in the order
\* PG, PG13, R, X, XXX, whatever the order and duplicates of S; the empty
\* sequence decodes to the empty sequence.
C1_RoundTrip ==
  Done("roundtrip") =>
    /\ res = SelectSeq(<<PG, PG13, R, X, XXX>>, LAMBDA l : l \in Range(arg))
    /\ (arg = <<>> => res = <<>>)

C1_Witness ==
  Done("roundtrip") /\ arg = <<XXX, PG, XXX, R>> /\ res = <<PG, R, XXX>>

C3_IsSafe ==
  Done("isSafe") =>
    /\ res <=> (arg # 0 /\ \A l \in {R, X, XXX} : (arg \div l) % 2 = 0)
    /\ (arg = 0 => res = FALSE)
    /\ (arg = flagifyBrowsingLevel(<<PG>>) => res = TRUE)
    /\ (arg = flagifyBrowsingLevel(<<PG, R>>) => res = FALSE)

C3_Witness ==
  Done("isSafe") /\ arg = flagifyBrowsingLevel(<<PG, R>>) /\ res = FALSE

\* C4: getIsPublicBrowsingLevel(mask) is true iff every rank decoded from mask
\* is PG: true for encode([PG]) and for 0, false for every mask holding a
\* rank other than PG.
C4_IsPublic ==
  Done("isPublic") =>
    /\ res <=> (\A l \in {PG13, R, X, XXX} : (arg \div l) % 2 = 0)
    /\ (arg = 0 => res = TRUE)
    /\ (arg = flagifyBrowsingLevel(<<PG>>) => res = TRUE)
    /\ (arg = flagifyBrowsingLevel(<<PG, PG13>>) => res = FALSE)

C4_Witness ==
  Done("isPublic") /\ arg = flagifyBrowsingLevel(<<PG, PG13>>) /\ res = FALSE

\* C5: browsingLevelOr returns the element at the smallest index that is
\* neither undefined nor 0, and the Public mask when there is none; the
\* result is never 0 or undefined.
C5_FirstNonZero ==
  Done("or") =>
    LET hits == { i \in 1..Len(arg) : arg[i].defined /\ arg[i].value # 0 }
    IN  /\ hits = {} => res = Num(flagifyBrowsingLevel(<<PG>>))
        /\ hits # {} => \E i \in hits : (\A j \in hits : i <= j) /\ res = arg[i]
        /\ res.defined
        /\ res.value # 0

C5_Witness ==
  Done("or") /\ arg = <<Undefined, Num(0), Num(R), Num(PG)>> /\ res = Num(R)

\* C6: toLegacy maps PG to None, PG13 to Soft, R to Mature, X and XXX to X,
\* Blocked to Blocked, and every other integer (0, combined masks such as
\* X|XXX) to None.
C6_ToLegacy ==
  Done("toLegacy") =>
    /\ res \in NsfwLevelDeprecated
    /\ res = CASE arg = PG -> "None"
               [] arg = PG13 -> "Soft"
               [] arg = R -> "Mature"
               [] arg = X -> "X"
               [] arg = XXX -> "X"
               [] arg = Blocked -> "Blocked"
               [] OTHER -> "None"

C6_Witness ==
  Done("toLegacy") /\ arg = nsfwLevelMapDeprecated.X /\ arg = X + XXX /\ res = "None"

\* C7: All = SafeForWork | NotSafeForWork, SafeForWork and NotSafeForWork do
\* not intersect, Public is contained in SafeForWork, and each group mask is
\* a fixed point of encode(decode(mask)).
C7_GroupMasks ==
  Done("group") =>
    /\ res = GroupFlag(arg)
    /\ allBrowsingLevelsFlag = BitOr(sfwBrowsingLevelsFlag, nsfwBrowsingLevelsFlag)
    /\ BitAnd(sfwBrowsingLevelsFlag, nsfwBrowsingLevelsFlag) = 0
    /\ BitAnd(publicBrowsingLevelsFlag, sfwBrowsingLevelsFlag) = publicBrowsingLevelsFlag
    /\ publicBrowsingLevelsFlag # 0

C7_Witness ==
  Done("group") /\ arg = "All" /\ res = PG + PG13 + R + X + XXX

(***************************************************************************)
(* ModalSpec: PageModal instances.  An instance captures the dialog count  *)
(* in a ref at its first render; its effect appends that value to the      *)
(* shared stackingContext list, and the effect's cleanup filters the value *)
(* out.  The effect depends on the opened prop.                            *)
(***************************************************************************)
NumModals == 3
MaxDialogs == 2

Modals == 1..NumModals

\* the effect body
PageModal_effect(list, stackingContextValue) == Append(list, stackingContextValue)

\* the effect's cleanup
PageModal_cleanup(list, stackingContextValue) ==
  SelectSeq(list, LAMBDA x : x # stackingContextValue)

ModalInit ==
  /\ mpc = [i \in Modals |-> "unmounted"]
  /\ ref = [i \in Modals |-> 0]
  /\ opened = [i \in Modals |-> FALSE]
  /\ dialogCount = 0
  /\ stackingContext = <<>>
  /\ CodecIdle
  /\ StoreIdle

ModalFrame == UNCHANGED codecVars /\ UNCHANGED storeVars

\* first render: useRef(useDialogStore.getState().dialogs.length)
Render(i) ==
  /\ mpc[i] = "unmounted"
  /\ mpc' = [mpc EXCEPT ![i] = "rendered"]
  /\ ref' = [ref EXCEPT ![i] = dialogCount]
  /\ \E o \in BOOLEAN : opened' = [opened EXCEPT ![i] = o]
  /\ UNCHANGED <<dialogCount, stackingContext>>
  /\ ModalFrame

\* the effect runs after the first commit
RunEffect(i) ==
  /\ mpc[i] = "rendered"
  /\ mpc' = [mpc EXCEPT ![i] = "mounted"]
  /\ stackingContext' = PageModal_effect(stackingContext, ref[i])
  /\ UNCHANGED <<ref, opened, dialogCount>>
  /\ ModalFrame

\* the opened prop changes: cleanup of the previous effect, then the effect
OpenedChanged(i) ==
  /\ mpc[i] = "mounted"
  /\ opened' = [opened EXCEPT ![i] = ~opened[i]]
  /\ stackingContext' =
       PageModal_effect(PageModal_cleanup(stackingContext, ref[i]), ref[i])
  /\ UNCHANGED <<mpc, ref, dialogCount>>
  /\ ModalFrame

\* unmount: the cleanup runs
Unmount(i) ==
  /\ mpc[i] = "mounted"
  /\ mpc' = [mpc EXCEPT ![i] = "unmounted"]
  /\ ref' = [ref EXCEPT ![i] = 0]
  /\ opened' = [opened EXCEPT ![i] = FALSE]
  /\ stackingContext' = PageModal_cleanup(stackingContext, ref[i])
  /\ UNCHANGED dialogCount
  /\ ModalFrame

\* the dialog store changes under the modals
OpenDialog ==
  /\ dialogCount < MaxDialogs
  /\ dialogCount' = dialogCount + 1
  /\ UNCHANGED <<mpc, ref, opened, stackingContext>>
  /\ ModalFrame

CloseDialog ==
  /\ dialogCount > 0
  /\ dialogCount' = dialogCount - 1
  /\ UNCHANGED <<mpc, ref, opened, stackingContext>>
  /\ ModalFrame

ModalNext ==
  \/ \E i \in Modals : Render(i)
  \/ \E i \in Modals : RunEffect(i)
  \/ \E i \in Modals : OpenedChanged(i)
  \/ \E i \in Modals : Unmount(i)
  \/ OpenDialog
  \/ CloseDialog

ModalSpec == ModalInit /\ [][ModalNext]_vars

\* C9: the stackingContext list holds the captured value of every mounted
\* PageModal, also when two instances captured the same dialog count: an
\* unmount removes only the entry of the instance that unmounted.
C9_MountedRegistered ==
  \A i \in Modals : mpc[i] = "mounted" => ref[i] \in Range(stackingContext)

(***************************************************************************)
(* StoreSpec: the post edit store (createContextStore) and the sync that   *)
(* PostEditProvider runs when its post prop changes.                       *)
(*                                                                         *)
(* An optional value (post?: ...) is a sequence of length 0 or 1.  lastOp  *)
(* records the call that made the last step (with the id handed to        *)
(* updateImage) and lastCb the entries its callback was invoked on (0      *)
(* stands for the post).                                                   *)
(***************************************************************************)
\* most images of a post handed to the provider
MaxPostImages == 2
\* setImages callbacks append only below this length
MaxImages == 2

PostIds == {1, 2}
Titles == {"a", "b"}
ImageIds == {1, 2}

\* PostDetailEditable['images'][number]: image k is stored under url k
PostImages == { [id |-> k, url |-> k, hideMeta |-> FALSE] : k \in ImageIds }

\* image lists of a post: the images of one post have distinct ids
PostImageLists ==
  { l \in SeqsUpTo(PostImages, MaxPostImages) :
      \A i, j \in 1..Len(l) : i # j => l[i].id # l[j].id }

\* PostDetailEditable
Posts == [id : PostIds, title : {"a"}, images : PostImageLists]
\* the provider's post prop: post?: PostDetailEditable
PostProps == {<<>>} \cup { <<p>> : p \in Posts }

\* PostParams = Omit<PostDetailEditable, 'images'>
PostParams == [id : PostIds, title : Titles]

\* { type: 'added', data: { ...data, index } }, index counted from 0
AddedEntries(imgs) ==
  [ i \in 1..Len(imgs) |->
      [ type |-> "added",
        data |-> [ id |-> imgs[i].id, url |-> imgs[i].url,
                   hideMeta |-> imgs[i].hideMeta, index |-> i - 1 ] ] ]

\* post?.images.map(...) ?? []
AddedOf(p) == IF p = <<>> THEN <<>> ELSE AddedEntries(p[1].images)

\* { type: 'blocked' | 'resolving', data: PostEditMediaDetail }
MediaEntries ==
  { [ type |-> t, data |-> [id |-> k, url |-> k, hideMeta |-> FALSE, index |-> 0] ] :
      t \in {"blocked", "resolving"}, k \in ImageIds }

\* obj[key] of a JavaScript object: undefined (<<>>) for a property it lacks
Property(obj, key) == IF key \in DOMAIN obj THEN <<obj[key]>> ELSE <<>>

\* lodash uniqBy(array, key): the first element of each value of element[key]
RECURSIVE uniqBy(_, _)
uniqBy(array, key) ==
  IF array = <<>> THEN <<>>
  ELSE LET front == uniqBy(SubSeq(array, 1, Len(array) - 1), key)
           last  == array[Len(array)]
       IN  IF \E i \in 1..Len(front) : Property(front[i], key) = Property(last, key)
             THEN front
             ELSE Append(front, last)

\* callbacks handed to updateImage and updatePost
ImageCallbacks == {"hideMeta", "showMeta"}
ApplyImageCb(cb, data) == [data EXCEPT !.hideMeta = (cb = "hideMeta")]
PostCallbacks == Titles
ApplyPostCb(cb, p) == [p EXCEPT !.title = cb]

\* createContextStore(post)
StoreInit ==
  /\ \E p \in PostProps :
       /\ post = p
       /\ images = AddedOf(p)
  /\ isReordering = FALSE
  /\ lastOp = [name |-> "create", id |-> 0]
  /\ lastCb = <<>>
  /\ CodecIdle
  /\ ModalIdle

StoreFrame == UNCHANGED codecVars /\ UNCHANGED modalVars

\* setPost: (post) => set({ post: { ...post, images: [] } })
setPost(data) ==
  /\ post' = << [id |-> data.id, title |-> data.title, images |-> <<>>] >>
  /\ lastOp' = [name |-> "other", id |-> 0]
  /\ lastCb' = <<>>
  /\ UNCHANGED <<images, isReordering>>
  /\ StoreFrame

\* updatePost: if (!post) return; cb(post)
updatePost(cb) ==
  /\ IF post = <<>>
       THEN post' = post /\ lastCb' = <<>>
       ELSE post' = <<ApplyPostCb(cb, post[1])>> /\ lastCb' = <<0>>
  /\ lastOp' = [name |-> "updatePost", id |-> 0]
  /\ UNCHANGED <<images, isReordering>>
  /\ StoreFrame

\* setImages: state.images = cb(state.images), cb appending an entry
setImagesAppend(entry) ==
  /\ Len(images) < MaxImages
  /\ images' = Append(images, entry)
  /\ lastOp' = [name |-> "other", id |-> 0]
  /\ lastCb' = <<>>
  /\ UNCHANGED <<post, isReordering>>
  /\ StoreFrame

\* setImages: state.images = cb(state.images), cb filtering an entry out
setImagesRemove(k) ==
  /\ k \in 1..Len(images)
  /\ images' = SubSeq(images, 1, k - 1) \o SubSeq(images, k + 1, Len(images))
  /\ lastOp' = [name |-> "other", id |-> 0]
  /\ lastCb' = <<>>
  /\ UNCHANGED <<post, isReordering>>
  /\ StoreFrame

\* setImages: state.images = cb(state.images), cb turning a resolving entry
\* into an added one
setImagesResolve(k) ==
  /\ k \in 1..Len(images)
  /\ images[k].type = "resolving"
  /\ images' = [images EXCEPT ![k].type = "added"]
  /\ lastOp' = [name |-> "other", id |-> 0]
  /\ lastCb' = <<>>
  /\ UNCHANGED <<post, isReordering>>
  /\ StoreFrame

\* findIndex((x) => x.type === 'added' && x.data.id === id): 0 for -1
FindAdded(id) ==
  LET hits == { i \in 1..Len(images) : images[i].type = "added" /\ images[i].data.id = id }
  IN  IF hits = {} THEN 0 ELSE CHOOSE i \in hits : \A j \in hits : i <= j

FindAnyType(id) ==
  LET hits == { i \in 1..Len(images) : images[i].data.id = id }
  IN  IF hits = {} THEN 0 ELSE CHOOSE i \in hits : \A j \in hits : i <= j

updateImageAt(index, id, cb) ==
  /\ IF index > 0
       THEN /\ images' = [images EXCEPT ![index].data = ApplyImageCb(cb, @)]
            /\ lastCb' = <<index>>
       ELSE /\ images' = images
            /\ lastCb' = <<>>
  /\ lastOp' = [name |-> "updateImage", id |-> id]
  /\ UNCHANGED <<post, isReordering>>
  /\ StoreFrame

updateImage_AnyType(id, cb) == updateImageAt(FindAnyType(id), id, cb)

\* updateImage: if (index > -1) cb(state.images[index].data)
updateImage(id, cb) == updateImageAt(FindAdded(id), id, cb)

toggleReordering ==
  /\ isReordering' = ~isReordering
  /\ lastOp' = [name |-> "other", id |-> 0]
  /\ lastCb' = <<>>
  /\ UNCHANGED <<post, images>>
  /\ StoreFrame

\* useDidUpdate(..., [post]): the provider's post prop changed to newPost
PostChanged(newPost) ==
  LET isSamePost == post # <<>> /\ newPost # <<>> /\ post[1].id = newPost[1].id
  IN  /\ post' = newPost
      /\ images' = IF ~isSamePost
                     THEN AddedOf(newPost)
                     ELSE uniqBy(images \o AddedEntries(newPost[1].images), "url")
      /\ lastOp' = [name |-> "sync", id |-> 0]
      /\ lastCb' = <<>>
      /\ UNCHANGED isReordering
      /\ StoreFrame

StoreNext ==
  \/ \E data \in PostParams : setPost(data)
  \/ \E cb \in PostCallbacks : updatePost(cb)
  \/ \E entry \in MediaEntries : setImagesAppend(entry)
  \/ \E k \in 1..MaxImages : setImagesRemove(k)
  \/ \E k \in 1..MaxImages : setImagesResolve(k)
  \/ \E id \in ImageIds, cb \in ImageCallbacks : updateImage(id, cb)
  \/ toggleReordering
  \/ \E newPost \in PostProps : PostChanged(newPost)

StoreSpec == StoreInit /\ [][StoreNext]_vars

AddedHits(id) ==
  { i \in 1..Len(images) : images[i].type = "added" /\ images[i].data.id = id }

C10_Step ==
  /\ lastOp'.name = "updateImage" =>
       LET hits == AddedHits(lastOp'.id)
       IN  /\ post' = post
           /\ isReordering' = isReordering
           /\ Len(images') = Len(images)
           /\ hits = {} => (images' = images /\ lastCb' = <<>>)
           /\ hits # {} =>
                \E k \in hits :
                  /\ \A j \in hits : k <= j
                  /\ lastCb' = <<k>>
                  /\ images'[k].type = "added"
                  /\ \E cb \in ImageCallbacks :
                       images'[k].data = ApplyImageCb(cb, images[k].data)
                  /\ \A i \in 1..Len(images) : i # k => images'[i] = images[i]
  /\ (lastOp'.name = "updatePost" /\ post = <<>>) =>
       /\ post' = <<>>
       /\ images' = images
       /\ isReordering' = isReordering
       /\ lastCb' = <<>>

\* C10: updateImage(id, cb) calls cb on at most one entry, the first 'added'
\* entry whose data.id is id; with no such entry cb is not called and the
\* state is unchanged; every other entry (blocked and resolving ones
\* included), post and isReordering are left alone.  updatePost(cb) with no
\* post does not call cb and changes nothing.
C10_UpdateFrame == [][C10_Step]_vars

C10_Witness ==
  /\ lastOp.name = "updateImage"
  /\ lastCb = <<2>>
  /\ Len(images) = 2
  /\ images[1].type = "blocked"
  /\ images[1].data.id = lastOp.id
  /\ images[1].data.hideMeta = FALSE
  /\ images[2].data.hideMeta = TRUE

DistinctUrls(list) ==
  \A i, j \in 1..Len(list) : i # j => list[i].data.url # list[j].data.url

C8_Step ==
  lastOp'.name = "sync" =>
    IF post # <<>> /\ post' # <<>> /\ post[1].id = post'[1].id
      THEN DistinctUrls(images) =>
             /\ \A i \in 1..Len(images) : \E j \in 1..Len(images') : images'[j] = images[i]
             /\ \A n \in 1..Len(post'[1].images) :
                  \E j \in 1..Len(images') :
                    images'[j].data.url = post'[1].images[n].url
             /\ DistinctUrls(images')
      ELSE images' = AddedOf(post')

\* C8: a sync with a post of the same id keeps every entry of the store and
\* adds one 'added' entry per incoming image whose url is new, no two
\* entries sharing a url; otherwise the images become the incoming post's
\* images as 'added' entries indexed by position.  (Stated for stores whose
\* entries have distinct urls.)
C8_SyncMergesByUrl == [][C8_Step]_vars

====
